---- MODULE Spec2Model ----
(***************************************************************************)
(* Model of music_player.py: a frame loop that classifies hand landmark    *)
(* sets into gestures and dispatches playback and volume commands.         *)
(*                                                                         *)
(* Units.  Normalised landmark coordinates are in hundredths (1.0 = 100),  *)
(* clock readings and cooldowns in tenths of a second (1.0 s = 10), pixel  *)
(* lengths in tenths of a pixel (hypot is a float in the source), device   *)
(* volume levels in hundredths of a dB.                                    *)
(***************************************************************************)
EXTENDS Integers, Sequences, FiniteSets, TLC

\* ------------------------------------------------------------------ bounds
MaxTracks == 3          \* len(music_files) ranges over 1..MaxTracks
MaxPixelDist == 255     \* pixel distances of the volume-mapping specification

\* --------------------------------------------------------- program constants
cooldown_time == 10     \* 1.0 s
gesture_cooldown == 10  \* 1 s
message_duration == 10  \* 1 s
wCam == 640
hCam == 480
max_num_hands == 2
minVol == -6525         \* volRange[0], "usually -65.25db"
maxVol == 0             \* volRange[1]
Margin == 10            \* the 0.1 of wrist.x - 0.1 / wrist.x + 0.1
TouchDist == 5          \* the 0.05 of distance < 0.05
LenLo == 300            \* the 30 of [30, 250]
LenHi == 2500           \* the 250 of [30, 250]
LenScale == 10          \* tenths of a pixel per pixel
InitialLevel == -3000   \* volume.GetMasterVolumeLevel() at startup

VARIABLES
    numTracks,            \* len(music_files)
    unreadable,           \* track indices whose load raises
    devices,              \* whether the camera and the volume sink are there
    current_song_index,
    last_wave_time,
    last_gesture_time,
    current_message,
    message_start_time,
    last_volume,
    volPer,               \* the percentage drawn in the frame
    current_time,         \* time.time() of the last frame
    loaded,               \* playback engine: the track loaded
    mstate,               \* playback engine: "stopped", "playing", "paused"
    devLevel,             \* volume sink: the master level
    hands,                \* landmark sets (pose numbers) processed in the frame
    calls,                \* collaborator calls made in the frame
    accepted,             \* discrete commands dispatched in the frame
    lastCmd,              \* the last discrete command dispatched and its time
    scenario,             \* progress through the end-to-end scenario
    pc,                   \* "start", "read", "hands", "cleanup", "done", "crashed"
    released,             \* resources released by the cleanup
    probe                 \* input/output of the pure-function specifications

vars == <<numTracks, unreadable, devices, current_song_index, last_wave_time,
          last_gesture_time, current_message, message_start_time, last_volume,
          volPer, current_time, loaded, mstate, devLevel, hands, calls,
          accepted, lastCmd, scenario, pc, released, probe>>

\* every variable but probe
programVars == <<numTracks, unreadable, devices, current_song_index,
                 last_wave_time,
                 last_gesture_time, current_message, message_start_time,
                 last_volume, volPer, current_time, loaded, mstate, devLevel,
                 hands, calls, accepted, lastCmd, scenario, pc, released>>

\* ----------------------------------------------------------- landmark sets
Pt(px, py) == [x |-> px, y |-> py]

\* A landmark set is a function 0..20 -> point; `over` gives the points that
\* matter to the classifiers, the rest sit at the palm.
Hand(over) == [i \in 0..20 |-> IF i \in DOMAIN over THEN over[i] ELSE Pt(50, 70)]

Neutral ==      \* a fist: nothing qualifies
    Hand(0 :> Pt(50, 80) @@ 3 :> Pt(58, 72) @@ 4 :> Pt(60, 70) @@
         6 :> Pt(50, 55) @@ 8 :> Pt(50, 60) @@ 10 :> Pt(52, 55) @@ 12 :> Pt(52, 60) @@
         14 :> Pt(54, 55) @@ 16 :> Pt(54, 60) @@ 18 :> Pt(56, 55) @@ 20 :> Pt(56, 60))

WaveL ==        \* all fingertips left of the wrist; middle finger level
    Hand(0 :> Pt(60, 50) @@ 3 :> Pt(50, 42) @@ 4 :> Pt(45, 40) @@
         6 :> Pt(50, 47) @@ 8 :> Pt(40, 45) @@ 10 :> Pt(50, 50) @@ 12 :> Pt(38, 50) @@
         14 :> Pt(50, 53) @@ 16 :> Pt(40, 55) @@ 18 :> Pt(50, 58) @@ 20 :> Pt(45, 60))

WaveR ==        \* the mirror image of WaveL
    Hand(0 :> Pt(40, 50) @@ 3 :> Pt(50, 42) @@ 4 :> Pt(55, 40) @@
         6 :> Pt(50, 47) @@ 8 :> Pt(60, 45) @@ 10 :> Pt(50, 50) @@ 12 :> Pt(62, 50) @@
         14 :> Pt(50, 53) @@ 16 :> Pt(60, 55) @@ 18 :> Pt(50, 58) @@ 20 :> Pt(55, 60))

OkSign ==       \* thumb and index touching, the other three fingers up
    Hand(0 :> Pt(55, 80) @@ 3 :> Pt(52, 55) @@ 4 :> Pt(50, 50) @@
         6 :> Pt(53, 56) @@ 8 :> Pt(52, 51) @@ 10 :> Pt(55, 45) @@ 12 :> Pt(55, 30) @@
         14 :> Pt(58, 46) @@ 16 :> Pt(58, 32) @@ 18 :> Pt(61, 48) @@ 20 :> Pt(61, 36))

PinchFar ==     \* volume pose, thumb-index 385 px apart (beyond 250)
    Hand(0 :> Pt(50, 90) @@ 3 :> Pt(30, 80) @@ 4 :> Pt(20, 80) @@
         6 :> Pt(60, 40) @@ 8 :> Pt(60, 20) @@ 10 :> Pt(63, 60) @@ 12 :> Pt(63, 65) @@
         14 :> Pt(66, 60) @@ 16 :> Pt(66, 65) @@ 18 :> Pt(69, 60) @@ 20 :> Pt(69, 65))

WaveLPinch ==   \* all fingertips left of the wrist and the volume pose, 160 px apart
    Hand(0 :> Pt(70, 50) @@ 3 :> Pt(50, 50) @@ 4 :> Pt(30, 50) @@
         6 :> Pt(50, 40) @@ 8 :> Pt(50, 30) @@ 10 :> Pt(55, 50) @@ 12 :> Pt(55, 60) @@
         14 :> Pt(56, 52) @@ 16 :> Pt(56, 62) @@ 18 :> Pt(57, 54) @@ 20 :> Pt(57, 64))

WaveLOk ==      \* all fingertips left of the wrist and the OK sign
    Hand(0 :> Pt(75, 80) @@ 3 :> Pt(52, 55) @@ 4 :> Pt(50, 50) @@
         6 :> Pt(53, 56) @@ 8 :> Pt(52, 51) @@ 10 :> Pt(55, 45) @@ 12 :> Pt(55, 30) @@
         14 :> Pt(58, 46) @@ 16 :> Pt(58, 32) @@ 18 :> Pt(61, 48) @@ 20 :> Pt(61, 36))

WaveROk ==      \* all fingertips right of the wrist and the OK sign
    Hand(0 :> Pt(35, 80) @@ 3 :> Pt(52, 55) @@ 4 :> Pt(50, 50) @@
         6 :> Pt(53, 56) @@ 8 :> Pt(52, 51) @@ 10 :> Pt(55, 45) @@ 12 :> Pt(55, 30) @@
         14 :> Pt(58, 46) @@ 16 :> Pt(58, 32) @@ 18 :> Pt(61, 48) @@ 20 :> Pt(61, 36))

PinchNear ==    \* volume pose, thumb-index 16 px apart (below 30)
    Hand(0 :> Pt(50, 90) @@ 3 :> Pt(55, 55) @@ 4 :> Pt(50, 50) @@
         6 :> Pt(52, 60) @@ 8 :> Pt(52, 52) @@ 10 :> Pt(63, 60) @@ 12 :> Pt(63, 65) @@
         14 :> Pt(66, 60) @@ 16 :> Pt(66, 65) @@ 18 :> Pt(69, 60) @@ 20 :> Pt(69, 65))

Poses ==
    <<Neutral, WaveL, WaveR, OkSign, PinchFar, WaveLPinch, WaveLOk, WaveROk, PinchNear>>

\* the clock readings tried (tenths of a second): gaps of 0, 0.5, 1.0, 1.1, 1.5 s
\* and more between frames, and first frames within and beyond 1.0 s of zero
ClockReadings == {0, 5, 11, 12, 17, 22, 27}

PoseIds == 1..Len(Poses)

\* ------------------------------------------------------------- classifiers
FingerTips == {4, 8, 12, 16, 20}

\* mutant: the margin itself counts as beyond the margin
is_wave_left_Inclusive(landmarks) ==
    \A i \in FingerTips : landmarks[i].x <= landmarks[0].x - Margin

is_wave_left(landmarks) ==
    \A i \in FingerTips : landmarks[i].x < landmarks[0].x - Margin

is_wave_right(landmarks) ==
    \A i \in FingerTips : landmarks[i].x > landmarks[0].x + Margin

is_volume_control_gesture(landmarks) ==
    LET index_up == landmarks[8].y < landmarks[6].y
        thumb_up == landmarks[4].x < landmarks[3].x
        middle_down == landmarks[12].y > landmarks[10].y
        ring_down == landmarks[16].y > landmarks[14].y
        pinky_down == landmarks[20].y > landmarks[18].y
    IN index_up /\ thumb_up /\ middle_down /\ ring_down /\ pinky_down

\* math.hypot(dx, dy) < 0.05, squared
is_play_pause_gesture(landmarks) ==
    LET dx == landmarks[4].x - landmarks[8].x
        dy == landmarks[4].y - landmarks[8].y
        middle_up == landmarks[12].y < landmarks[10].y
        ring_up == landmarks[16].y < landmarks[14].y
        pinky_up == landmarks[20].y < landmarks[18].y
    IN dx * dx + dy * dy < TouchDist * TouchDist /\ middle_up /\ ring_up /\ pinky_up

\* ------------------------------------------------------------------ numbers
RECURSIVE IsqrtIn(_, _, _)
IsqrtIn(n, lo, hi) ==
    IF lo >= hi THEN lo
    ELSE LET mid == (lo + hi + 1) \div 2
         IN IF mid * mid <= n THEN IsqrtIn(n, mid, hi) ELSE IsqrtIn(n, lo, mid - 1)

\* floor of the square root
Isqrt(n) == IsqrtIn(n, 0, 10000)

\* mutant: the line is extended beyond x1 instead of clamped
interp_Unclamped(x, x0, x1, f0, f1) ==
    IF x <= x0 THEN f0
    ELSE f0 + ((x - x0) * (f1 - f0)) \div (x1 - x0)

\* np.interp(x, [x0, x1], [f0, f1]) for x0 < x1: clamped outside, linear inside
interp(x, x0, x1, f0, f1) ==
    IF x <= x0 THEN f0
    ELSE IF x >= x1 THEN f1
    ELSE f0 + ((x - x0) * (f1 - f0)) \div (x1 - x0)

\* int(v * w): landmark coordinate (hundredths) to pixel
ToPixel(v, size) == (v * size) \div 100

\* math.hypot(index_x - thumb_x, index_y - thumb_y), in tenths of a pixel
PinchLength(landmarks) ==
    LET thumb_x == ToPixel(landmarks[4].x, wCam)
        thumb_y == ToPixel(landmarks[4].y, hCam)
        index_x == ToPixel(landmarks[8].x, wCam)
        index_y == ToPixel(landmarks[8].y, hCam)
        dx == index_x - thumb_x
        dy == index_y - thumb_y
    IN Isqrt((dx * dx + dy * dy) * LenScale * LenScale)

\* mutant: the level is extrapolated outside [30, 250]
VolumeLevel_Unclamped(length) ==
    minVol + ((length - LenLo) * (maxVol - minVol)) \div (LenHi - LenLo)

\* new_volume = np.interp(length, [30, 250], [minVol, maxVol])
VolumeLevel(length) == interp(length, LenLo, LenHi, minVol, maxVol)

\* volPer = int(np.interp(length, [30, 250], [0, 100]))
VolumePercent(length) == interp(length, LenLo, LenHi, 0, 100)

\* volPer = int(np.interp(last_volume, [minVol, maxVol], [0, 100]))
LevelPercent(level) == interp(level, minVol, maxVol, 0, 100)

\* ------------------------------------------------ the external collaborators
Call(i, name, a) == [hand |-> i, op |-> name, arg |-> a]

\* pygame.mixer.music.load: raises on an unreadable track, else replaces the
\* loaded track and stops playback
MusicLoad(s, i, k) ==
    IF k \in unreadable
    THEN [s EXCEPT !.calls = Append(@, Call(i, "load", k)), !.crashed = TRUE]
    ELSE [s EXCEPT !.calls = Append(@, Call(i, "load", k)),
                   !.loaded = k, !.mstate = "stopped"]

\* pygame.mixer.music.play: starts the loaded track
MusicPlay(s, i) ==
    [s EXCEPT !.calls = Append(@, Call(i, "play", 0)), !.mstate = "playing"]

\* pygame.mixer.music.pause: suspends playback if playing
MusicPause(s, i) ==
    [s EXCEPT !.calls = Append(@, Call(i, "pause", 0)),
              !.mstate = IF @ = "playing" THEN "paused" ELSE @]

\* pygame.mixer.music.unpause: resumes paused playback only
MusicUnpause(s, i) ==
    [s EXCEPT !.calls = Append(@, Call(i, "unpause", 0)),
              !.mstate = IF @ = "paused" THEN "playing" ELSE @]

\* pygame.mixer.music.get_busy
MusicGetBusy(s) == s.mstate = "playing"

\* volume.SetMasterVolumeLevel(level, None)
SetMasterVolumeLevel(s, i, level) ==
    [s EXCEPT !.calls = Append(@, Call(i, "set_level", level)), !.devLevel = level]

\* ------------------------------------------------------ the command branches
\* the message and its start time, as every accepted command sets them
Accept(s, i, c, m, t) ==
    [s EXCEPT !.accepted = Append(@, [hand |-> i, cmd |-> c]),
              !.current_message = m, !.message_start_time = t]

\* mutant: the index advances without the modulo
NextSong_NoWrap(s, i, t) ==
    LET k == s.current_song_index + 1
        s1 == MusicLoad([s EXCEPT !.current_song_index = k], i, k)
    IN IF s1.crashed THEN s1
       ELSE [Accept(MusicPlay(s1, i), i, "NextTrack", "Next Song", t)
                EXCEPT !.last_wave_time = t]

\* lines 247-252
NextSong(s, i, t) ==
    LET k == (s.current_song_index + 1) % numTracks
        s1 == MusicLoad([s EXCEPT !.current_song_index = k], i, k)
    IN IF s1.crashed THEN s1
       ELSE [Accept(MusicPlay(s1, i), i, "NextTrack", "Next Song", t)
                EXCEPT !.last_wave_time = t]

\* mutant: the index steps back without the modulo
PreviousSong_NoWrap(s, i, t) ==
    LET k == s.current_song_index - 1
        s1 == MusicLoad([s EXCEPT !.current_song_index = k], i, k)
    IN IF s1.crashed THEN s1
       ELSE [Accept(MusicPlay(s1, i), i, "PreviousTrack", "Previous Song", t)
                EXCEPT !.last_wave_time = t]

\* lines 256-261
PreviousSong(s, i, t) ==
    LET k == (s.current_song_index - 1) % numTracks
        s1 == MusicLoad([s EXCEPT !.current_song_index = k], i, k)
    IN IF s1.crashed THEN s1
       ELSE [Accept(MusicPlay(s1, i), i, "PreviousTrack", "Previous Song", t)
                EXCEPT !.last_wave_time = t]

\* mutant: the busy test is inverted
PlayPause_Inverted(s, i, t) ==
    LET s1 == IF ~MusicGetBusy(s)
              THEN Accept(MusicPause(s, i), i, "PlayPauseToggle", "Paused", t)
              ELSE Accept(MusicUnpause(s, i), i, "PlayPauseToggle", "Playing", t)
    IN [s1 EXCEPT !.last_gesture_time = t]

\* lines 265-272
PlayPause(s, i, t) ==
    LET s1 == IF MusicGetBusy(s)
              THEN Accept(MusicPause(s, i), i, "PlayPauseToggle", "Paused", t)
              ELSE Accept(MusicUnpause(s, i), i, "PlayPauseToggle", "Playing", t)
    IN [s1 EXCEPT !.last_gesture_time = t]

\* mutant: a wave exactly one cooldown after the last one passes
DiscreteBlock_AtCooldown(s, i, landmarks, t) ==
    IF t - s.last_wave_time >= cooldown_time
    THEN IF is_wave_left(landmarks) THEN NextSong(s, i, t)
         ELSE IF is_wave_right(landmarks) THEN PreviousSong(s, i, t)
         ELSE IF is_play_pause_gesture(landmarks)
                 /\ t - s.last_gesture_time > gesture_cooldown
              THEN PlayPause(s, i, t)
              ELSE s
    ELSE s

\* mutant: the chain runs without the wave cooldown test
DiscreteBlock_NoCooldown(s, i, landmarks, t) ==
    IF is_wave_left(landmarks) THEN NextSong(s, i, t)
    ELSE IF is_wave_right(landmarks) THEN PreviousSong(s, i, t)
    ELSE IF is_play_pause_gesture(landmarks)
            /\ t - s.last_gesture_time > gesture_cooldown
         THEN PlayPause(s, i, t)
         ELSE s

\* mutant: the play/pause test comes first in the chain
DiscreteBlock_PlayPauseFirst(s, i, landmarks, t) ==
    IF t - s.last_wave_time > cooldown_time
    THEN IF is_play_pause_gesture(landmarks)
            /\ t - s.last_gesture_time > gesture_cooldown
         THEN PlayPause(s, i, t)
         ELSE IF is_wave_left(landmarks) THEN NextSong(s, i, t)
         ELSE IF is_wave_right(landmarks) THEN PreviousSong(s, i, t)
         ELSE s
    ELSE s

\* lines 244-272: the if / elif / elif chain under the wave cooldown
DiscreteBlock(s, i, landmarks, t) ==
    IF t - s.last_wave_time > cooldown_time
    THEN IF is_wave_left(landmarks) THEN NextSong(s, i, t)
         ELSE IF is_wave_right(landmarks) THEN PreviousSong(s, i, t)
         ELSE IF is_play_pause_gesture(landmarks)
                 /\ t - s.last_gesture_time > gesture_cooldown
              THEN PlayPause(s, i, t)
              ELSE s
    ELSE s

\* mutant: the level is set from every hand, volume gesture or not
VolumeBlock_Always(s, i, landmarks) ==
    LET length == PinchLength(landmarks)
        new_volume == VolumeLevel(length)
    IN [SetMasterVolumeLevel([s EXCEPT !.last_volume = new_volume], i, new_volume)
           EXCEPT !.volPer = VolumePercent(length)]

\* lines 275-300
VolumeBlock(s, i, landmarks) ==
    IF is_volume_control_gesture(landmarks)
    THEN LET length == PinchLength(landmarks)
             new_volume == VolumeLevel(length)
         IN [SetMasterVolumeLevel([s EXCEPT !.last_volume = new_volume], i, new_volume)
                EXCEPT !.volPer = VolumePercent(length)]
    ELSE s

\* mutant: the volume block runs only when the pass dispatched no command
ProcessHand_VolumeElse(s, i, landmarks, t) ==
    LET s1 == DiscreteBlock(s, i, landmarks, t)
    IN IF s1.crashed \/ Len(s1.accepted) > Len(s.accepted)
       THEN s1
       ELSE VolumeBlock(s1, i, landmarks)

\* one pass of the for loop over the detected hands (lines 239-300)
ProcessHand(s, i, landmarks, t) ==
    LET s1 == DiscreteBlock(s, i, landmarks, t)
    IN IF s1.crashed THEN s1 ELSE VolumeBlock(s1, i, landmarks)

\* the program's variables as the for loop sees them
Current ==
    [current_song_index |-> current_song_index,
     last_wave_time |-> last_wave_time,
     last_gesture_time |-> last_gesture_time,
     current_message |-> current_message,
     message_start_time |-> message_start_time,
     last_volume |-> last_volume,
     volPer |-> volPer,
     loaded |-> loaded, mstate |-> mstate, devLevel |-> devLevel,
     calls |-> calls, accepted |-> accepted, crashed |-> FALSE]

\* ------------------------------------------------------------ observers
NoCmd ==
    [cmd |-> "none", at |-> 0, msg |-> "", before |-> "none", beforeAt |-> 0,
     refused |-> FALSE]

\* the classifier that wins for one hand: the order of the if / elif chain
Verdict(landmarks) ==
    IF is_wave_left(landmarks) THEN "NextTrack"
    ELSE IF is_wave_right(landmarks) THEN "PreviousTrack"
    ELSE IF is_play_pause_gesture(landmarks) THEN "PlayPauseToggle"
    ELSE "none"

\* The last discrete command dispatched with the clock reading of its frame
\* and the message it set, the one dispatched before it, and whether a hand's
\* verdict has been refused since.
LastCmdAfter(r, t, landmarks) ==
    IF Len(r.accepted) > Len(accepted)
    THEN [cmd |-> r.accepted[Len(r.accepted)].cmd, at |-> t,
          msg |-> r.current_message,
          before |-> lastCmd.cmd, beforeAt |-> lastCmd.at, refused |-> FALSE]
    ELSE IF Verdict(landmarks) # "none"
         THEN [lastCmd EXCEPT !.refused = TRUE]
         ELSE lastCmd

\* The end-to-end scenario: frames of one WaveLeft-only hand at t = 0, 0.5 and
\* 1.2 s and nothing else.  scenario counts the frames of it completed; it is
\* ScenarioOff once the run departs from it.
ScenarioTimes == <<0, 5, 12>>
ScenarioOff == Len(ScenarioTimes) + 1

ScenarioAfterFrame ==
    IF scenario \in {0, 1, 2}
       /\ current_time = ScenarioTimes[scenario + 1]
       /\ hands = <<2>>
    THEN scenario + 1
    ELSE ScenarioOff

\* ------------------------------------------------------------------ actions
NoProbe == [kind |-> "none"]

\* every track loads, the camera opens and the speakers are found
Healthy ==
    /\ unreadable = {}
    /\ devices = [camera |-> TRUE, sink |-> TRUE]

\* the module-level assignments before the loop (lines 51-53, 117-126, 189)
Startup ==
    /\ current_song_index = 0
    /\ last_wave_time = 0
    /\ last_gesture_time = 0
    /\ current_message = ""
    /\ message_start_time = 0
    /\ last_volume = InitialLevel
    /\ volPer = 0
    /\ current_time = 0
    /\ loaded = 0
    /\ mstate = "stopped"
    /\ devLevel = InitialLevel
    /\ hands = <<>>
    /\ calls = <<>>
    /\ accepted = <<>>
    /\ lastCmd = NoCmd
    /\ scenario = 0
    /\ released = {}

Init ==
    /\ numTracks \in 1..MaxTracks
    /\ Healthy
    /\ Startup
    /\ pc = "read"
    /\ probe = NoProbe

\* mutant: the loop goes on to another frame after it was left
BeginFrame_Retry(t) ==
    /\ pc \in {"read", "cleanup"}
    /\ devices.camera
    /\ t >= current_time
    /\ pc' = "hands"
    /\ current_time' = t
    /\ volPer' = LevelPercent(last_volume)
    /\ hands' = <<>>
    /\ calls' = <<>>
    /\ accepted' = <<>>
    /\ UNCHANGED <<numTracks, unreadable, devices, current_song_index, last_wave_time,
                   last_gesture_time, current_message, message_start_time,
                   last_volume, loaded, mstate, devLevel, lastCmd, scenario,
                   released, probe>>

\* lines 219-235: cap.read() succeeds, the detector runs, the clock is read
BeginFrame(t) ==
    /\ pc = "read"
    /\ devices.camera
    /\ t >= current_time
    /\ pc' = "hands"
    /\ current_time' = t
    /\ volPer' = LevelPercent(last_volume)
    /\ hands' = <<>>
    /\ calls' = <<>>
    /\ accepted' = <<>>
    /\ UNCHANGED <<numTracks, unreadable, devices, current_song_index, last_wave_time,
                   last_gesture_time, current_message, message_start_time,
                   last_volume, loaded, mstate, devLevel, lastCmd, scenario,
                   released, probe>>

\* lines 239-300: the for loop's next hand, showing pose p
NextHand(p) ==
    /\ pc = "hands"
    /\ Len(hands) < max_num_hands
    /\ \E r \in {ProcessHand(Current, Len(hands) + 1, Poses[p], current_time)} :
          /\ current_song_index' = r.current_song_index
          /\ last_wave_time' = r.last_wave_time
          /\ last_gesture_time' = r.last_gesture_time
          /\ current_message' = r.current_message
          /\ message_start_time' = r.message_start_time
          /\ last_volume' = r.last_volume
          /\ volPer' = r.volPer
          /\ loaded' = r.loaded
          /\ mstate' = r.mstate
          /\ devLevel' = r.devLevel
          /\ calls' = r.calls
          /\ accepted' = r.accepted
          /\ lastCmd' = LastCmdAfter(r, current_time, Poses[p])
          /\ pc' = IF r.crashed THEN "crashed" ELSE "hands"
    /\ hands' = Append(hands, p)
    /\ UNCHANGED <<numTracks, unreadable, devices, current_time, scenario, released,
                   probe>>

\* lines 302-318: the message times out, the frame is shown, the key is polled
EndFrame(quit) ==
    /\ pc = "hands"
    /\ current_message' =
          IF current_message # "" /\ current_time - message_start_time < message_duration
          THEN current_message
          ELSE ""
    /\ scenario' = ScenarioAfterFrame
    /\ pc' = IF quit THEN "cleanup" ELSE "read"
    /\ UNCHANGED <<numTracks, unreadable, devices, current_song_index, last_wave_time,
                   last_gesture_time, message_start_time, last_volume, volPer,
                   current_time, loaded, mstate, devLevel, hands, calls,
                   accepted, lastCmd, released, probe>>

\* lines 219-221: cap.read() fails
ReadFail ==
    /\ pc = "read"
    /\ pc' = "cleanup"
    /\ UNCHANGED <<numTracks, unreadable, devices, current_song_index, last_wave_time,
                   last_gesture_time, current_message, message_start_time,
                   last_volume, volPer, current_time, loaded, mstate, devLevel,
                   hands, calls, accepted, lastCmd, scenario, released, probe>>

\* lines 323-325
Cleanup ==
    /\ pc = "cleanup"
    /\ pc' = "done"
    /\ released' = {"camera", "windows", "mixer"}
    /\ mstate' = "stopped"
    /\ UNCHANGED <<numTracks, unreadable, devices, current_song_index, last_wave_time,
                   last_gesture_time, current_message, message_start_time,
                   last_volume, volPer, current_time, loaded, devLevel,
                   hands, calls, accepted, lastCmd, scenario, probe>>

\* the playing track reaches its end
TrackEnds ==
    /\ pc \in {"read", "hands"}
    /\ mstate = "playing"
    /\ mstate' = "stopped"
    /\ UNCHANGED <<numTracks, unreadable, devices, current_song_index, last_wave_time,
                   last_gesture_time, current_message, message_start_time,
                   last_volume, volPer, current_time, loaded, devLevel,
                   hands, calls, accepted, lastCmd, scenario, pc, released, probe>>

Next ==
    \/ \E t \in ClockReadings : BeginFrame(t)
    \/ \E p \in PoseIds : NextHand(p)
    \/ \E quit \in BOOLEAN : EndFrame(quit)
    \/ ReadFail
    \/ Cleanup
    \/ TrackEnds

Spec == Init /\ [][Next]_vars

\* ------------------------------------- the classifiers on their own
\* Landmark sets around the wave margin: the wrist at WristX, every fingertip
\* at one of the offsets just inside, on and just outside either margin.
WristX == 50            \* bound: where the probes put the wrist
TipOffsets == {-(Margin + 1), -Margin, -(Margin - 1), Margin - 1, Margin, Margin + 1}

WaveHand(offs) ==
    [i \in 0..20 |-> IF i \in FingerTips THEN Pt(WristX + offs[i], 50) ELSE Pt(WristX, 50)]

WaveProbes ==
    {[kind |-> "wave", tips |-> offs, done |-> FALSE, left |-> FALSE, right |-> FALSE] :
        offs \in [FingerTips -> TipOffsets]}

InitWave ==
    /\ numTracks = 1
    /\ Healthy
    /\ Startup
    /\ pc = "probe"
    /\ probe \in WaveProbes

\* is_wave_left and is_wave_right applied to the probe's landmark set
ClassifyWave ==
    /\ pc = "probe"
    /\ ~probe.done
    /\ probe' = [probe EXCEPT !.done = TRUE,
                              !.left = is_wave_left(WaveHand(probe.tips)),
                              !.right = is_wave_right(WaveHand(probe.tips))]
    /\ UNCHANGED programVars

NextWave == ClassifyWave

SpecWave == InitWave /\ [][NextWave]_vars

\* --------------------------------------- the volume mapping on its own
VolProbes ==
    {[kind |-> "vol", d1 |-> a, d2 |-> b, done |-> FALSE,
      lvl1 |-> 0, lvl2 |-> 0, pct1 |-> 0, pct2 |-> 0] :
        a \in 0..MaxPixelDist, b \in 0..MaxPixelDist}

InitVol ==
    /\ numTracks = 1
    /\ Healthy
    /\ Startup
    /\ pc = "probe"
    /\ probe \in VolProbes

\* lines 292 and 298 applied to two whole-pixel lengths
MapVolume ==
    /\ pc = "probe"
    /\ ~probe.done
    /\ probe' = [probe EXCEPT !.done = TRUE,
                              !.lvl1 = VolumeLevel(probe.d1 * LenScale),
                              !.lvl2 = VolumeLevel(probe.d2 * LenScale),
                              !.pct1 = VolumePercent(probe.d1 * LenScale),
                              !.pct2 = VolumePercent(probe.d2 * LenScale)]
    /\ UNCHANGED programVars

NextVol == MapVolume

SpecVol == InitVol /\ [][NextVol]_vars

\* ------------------------------------------------------ reading a step
\* the step processes one more hand, showing pose p
StepHand(p) == pc = "hands" /\ Len(hands) < max_num_hands /\ hands' = Append(hands, p)

\* the step dispatched a discrete command
Dispatched == Len(accepted') = Len(accepted) + 1
NewCmd == accepted'[Len(accepted')].cmd

\* the collaborator calls the step made
NewCalls == SubSeq(calls', Len(calls) + 1, Len(calls'))
IsPlaybackCall(c) == c.op # "set_level"
IsVolumeCall(c) == c.op = "set_level"
Ops(cs) == [k \in 1..Len(cs) |-> <<cs[k].op, cs[k].arg>>]
NewPlaybackCalls == Ops(SelectSeq(NewCalls, IsPlaybackCall))
NewVolumeCalls == Ops(SelectSeq(NewCalls, IsVolumeCall))

CooldownOf(c) == IF c = "PlayPauseToggle" THEN gesture_cooldown ELSE cooldown_time

\* ------------------------------------------------------------------ claims

\* C1: in any single frame, across all detected hands, at most one discrete
\* command (NextTrack, PreviousTrack or PlayPauseToggle) is dispatched.
C1_AtMostOneDiscretePerFrame == Len(accepted) <= 1

\* C2: debounce within one class.  When a hand qualifies for the class of the
\* last command dispatched (so no other command was dispatched in between), it
\* is dispatched if and only if strictly more than the class's 1.0 s cooldown
\* has passed since that command: 0.5 s apart gives one NextTrack, 1.5 s two.
C2_DebounceSameClass ==
    [][\A p \in PoseIds :
          (StepHand(p) /\ Verdict(Poses[p]) # "none" /\ Verdict(Poses[p]) = lastCmd.cmd)
          => /\ Dispatched <=> current_time - lastCmd.at > CooldownOf(lastCmd.cmd)
             /\ Dispatched => NewCmd = lastCmd.cmd]_vars

\* a second NextTrack dispatched 1.5 s after the first, nothing in between
C2_Witness ==
    /\ lastCmd.cmd = "NextTrack" /\ lastCmd.before = "NextTrack"
    /\ lastCmd.at - lastCmd.beforeAt = 15
    /\ lastCmd.at = current_time
    /\ accepted = <<[hand |-> 1, cmd |-> "NextTrack"]>>

\* C3: the play/pause cooldown is independent of the wave cooldown.  A hand
\* that qualifies for PlayPauseGesture and for neither wave, in a frame that
\* has dispatched nothing yet, is dispatched
\* whenever more than 1.0 s has passed since the last PlayPauseToggle, however
\* recent the last track command; and a dispatched PlayPauseToggle leaves the
\* wave timestamp alone.
C3_PlayPauseIndependent ==
    [][\A p \in PoseIds :
          (StepHand(p) /\ Verdict(Poses[p]) = "PlayPauseToggle" /\ accepted = <<>>)
          => /\ current_time - last_gesture_time > gesture_cooldown
                => (Dispatched /\ NewCmd = "PlayPauseToggle")
             /\ Dispatched => last_wave_time' = last_wave_time]_vars

C5_TrackWrap ==
    [][\A p \in PoseIds :
          (StepHand(p) /\ Dispatched /\ NewCmd \in {"NextTrack", "PreviousTrack"})
          => /\ NewCmd = "NextTrack" =>
                   current_song_index' = IF current_song_index = numTracks - 1
                                         THEN 0 ELSE current_song_index + 1
             /\ NewCmd = "PreviousTrack" =>
                   current_song_index' = IF current_song_index = 0
                                         THEN numTracks - 1 ELSE current_song_index - 1
             /\ NewPlaybackCalls = << <<"load", current_song_index'>>, <<"play", 0>> >>
             /\ loaded' = current_song_index'
             /\ mstate' = "playing"]_vars

\* the very first command is a PreviousTrack on three tracks: 0 wraps to 2
C5_Witness ==
    /\ numTracks = 3
    /\ lastCmd.cmd = "PreviousTrack" /\ lastCmd.before = "none"
    /\ current_song_index = 2 /\ loaded = 2
    /\ accepted = <<[hand |-> 1, cmd |-> "PreviousTrack"]>>

\* C6: a dispatched PlayPauseToggle depends on the engine's busy state alone:
\* busy, it calls pause (not unpause) and the message is "Paused"; not busy, it
\* calls unpause (not pause) and the message is "Playing"; either way the
\* track index stays and no load or play is issued.
C6_ToggleByBusy ==
    [][\A p \in PoseIds :
          (StepHand(p) /\ Dispatched /\ NewCmd = "PlayPauseToggle")
          => /\ IF mstate = "playing"
                THEN NewPlaybackCalls = << <<"pause", 0>> >> /\ current_message' = "Paused"
                ELSE NewPlaybackCalls = << <<"unpause", 0>> >> /\ current_message' = "Playing"
             /\ current_song_index' = current_song_index
             /\ loaded' = loaded]_vars

\* a toggle that found the engine busy: paused, message "Paused"
C6_Witness ==
    /\ pc = "hands"
    /\ accepted = <<[hand |-> 1, cmd |-> "PlayPauseToggle"]>>
    /\ Ops(calls) = << <<"pause", 0>> >>
    /\ mstate = "paused"
    /\ current_message = "Paused"

\* C9: the volume channel is independent of the discrete channel.  Every hand
\* that satisfies VolumeGesture sets the device level from its own thumb-index
\* pixel distance, whatever the cooldowns and whatever was dispatched in the
\* frame; and what a hand's pass dispatches is what the discrete block alone
\* dispatches for any hand with the same discrete verdict, volume gesture or
\* not.
C9_VolumeIndependent ==
    [][\A p \in PoseIds :
          StepHand(p)
          => /\ is_volume_control_gesture(Poses[p])
                => LET level == VolumeLevel(PinchLength(Poses[p]))
                   IN /\ NewVolumeCalls = << <<"set_level", level>> >>
                      /\ devLevel' = level
                      /\ last_volume' = level
             /\ ~is_volume_control_gesture(Poses[p])
                => (NewVolumeCalls = <<>> /\ devLevel' = devLevel)
             /\ \A q \in PoseIds :
                   Verdict(Poses[q]) = Verdict(Poses[p])
                   => accepted' = DiscreteBlock(Current, Len(hands) + 1, Poses[q],
                                                current_time).accepted]_vars

\* one hand both waves left and pinches 160 px wide: NextTrack is dispatched
\* and the level is set to -26.70 dB in the same pass
C9_Witness ==
    /\ hands = <<6>>
    /\ accepted = <<[hand |-> 1, cmd |-> "NextTrack"]>>
    /\ Ops(calls) = << <<"load", current_song_index>>, <<"play", 0>>, <<"set_level", -2670>> >>
    /\ devLevel = -2670

\* the class of verdict c is Cooling by the program's timestamps
Cooling(c) ==
    IF c = "PlayPauseToggle"
    THEN current_time - last_gesture_time <= gesture_cooldown
    ELSE current_time - last_wave_time <= cooldown_time

\* C10: a discrete verdict that arrives while its class is Cooling is dropped,
\* not queued: that pass makes no playback call and leaves the track index,
\* both timestamps and the message alone; and a frame with no qualifying hand
\* dispatches nothing, cooldown expired or not.
C10_CoolingDropped ==
    [][/\ \A p \in PoseIds :
             (StepHand(p) /\ Verdict(Poses[p]) # "none" /\ Cooling(Verdict(Poses[p])))
             => /\ accepted' = accepted
                /\ NewPlaybackCalls = <<>>
                /\ UNCHANGED <<current_song_index, last_wave_time, last_gesture_time,
                               current_message, message_start_time, loaded, mstate>>
       /\ (\A k \in 1..Len(hands') : Verdict(Poses[hands'[k]]) = "none")
             => accepted' = <<>>]_vars

\* a verdict was refused after the last command, both cooldowns have since
\* expired, and a frame of one neutral hand has ended with nothing dispatched
C10_Witness ==
    /\ pc = "read"
    /\ lastCmd.cmd # "none" /\ lastCmd.refused
    /\ hands = <<1>>
    /\ current_time - last_wave_time > cooldown_time
    /\ current_time - last_gesture_time > gesture_cooldown
    /\ accepted = <<>> /\ calls = <<>>

\* C7: the mapping from pixel distance to device level is monotonic and
\* clamped: 30 px gives the device minimum, 250 px the maximum, anything below
\* 30 the same as 30, anything above 250 the same as 250; the percentage is
\* the same mapping onto 0..100 with the same clamping.
C7_VolumeMapping ==
    probe.done =>
       /\ probe.d1 <= probe.d2 => (probe.lvl1 <= probe.lvl2 /\ probe.pct1 <= probe.pct2)
       /\ probe.d1 = 30 => (probe.lvl1 = minVol /\ probe.pct1 = 0)
       /\ probe.d1 = 250 => (probe.lvl1 = maxVol /\ probe.pct1 = 100)
       /\ (probe.d1 < 30 /\ probe.d2 = 30) =>
             (probe.lvl1 = probe.lvl2 /\ probe.pct1 = probe.pct2)
       /\ (probe.d1 > 250 /\ probe.d2 = 250) =>
             (probe.lvl1 = probe.lvl2 /\ probe.pct1 = probe.pct2)
       /\ probe.lvl1 \in minVol..maxVol /\ probe.pct1 \in 0..100

\* 252 px against 250 px: both at the device maximum and 100 %
C7_Witness ==
    /\ probe.done /\ probe.d1 = 252 /\ probe.d2 = 250
    /\ probe.lvl1 = maxVol /\ probe.lvl2 = maxVol
    /\ probe.pct1 = 100 /\ probe.pct2 = 100

TipX(k) == WristX + probe.tips[k]

\* C8, as stated: is_wave_left is true whenever all five fingertips have
\* x <= wrist.x - 0.1, the boundary included, and false when any fingertip
\* violates that; is_wave_right is the mirror image with wrist.x + 0.1.
C8_WaveInclusive ==
    probe.done =>
       /\ (\A k \in FingerTips : TipX(k) <= WristX - Margin) => probe.left
       /\ (\E k \in FingerTips : TipX(k) > WristX - Margin) => ~probe.left
       /\ (\A k \in FingerTips : TipX(k) >= WristX + Margin) => probe.right
       /\ (\E k \in FingerTips : TipX(k) < WristX + Margin) => ~probe.right

\* C8, amended: is_wave_left is true when all five fingertips are strictly
\* beyond the margin and false as soon as one fingertip is on the margin
\* (x = wrist.x - 0.1) or inside it; is_wave_right is the mirror image.
C8_WaveStrict ==
    probe.done =>
       /\ (\A k \in FingerTips : TipX(k) <= WristX - Margin - 1) => probe.left
       /\ (\E k \in FingerTips : TipX(k) >= WristX - Margin) => ~probe.left
       /\ (\A k \in FingerTips : TipX(k) >= WristX + Margin + 1) => probe.right
       /\ (\E k \in FingerTips : TipX(k) <= WristX + Margin) => ~probe.right

\* the thumb tip exactly on the left margin, the other four beyond it: false
C8_Witness ==
    /\ probe.done
    /\ TipX(4) = WristX - Margin
    /\ \A k \in FingerTips \ {4} : TipX(k) = WristX - Margin - 1
    /\ ~probe.left

\* --------------------------------------------- a track that does not load
\* The session of Spec with one track of the list other than the first
\* unreadable: pygame.mixer.music.load raises on it, nothing in the loop
\* catches the error, and the process ends where it was raised.
InitUnreadable ==
    /\ numTracks \in 2..MaxTracks
    /\ \E k \in 1..(numTracks - 1) : unreadable = {k}
    /\ devices = [camera |-> TRUE, sink |-> TRUE]
    /\ Startup
    /\ pc = "read"
    /\ probe = NoProbe

SpecUnreadable == InitUnreadable /\ [][Next]_vars

\* C11: on every exit path (quit key, failed frame read, an error raised while
\* dispatching such as a track that fails to load) the process ends only with
\* the video source released, the windows closed and playback stopped.
C11_ReleasedOnEveryExit ==
    pc \in {"done", "crashed"} =>
       /\ released = {"camera", "windows", "mixer"}
       /\ mstate = "stopped"

\* ------------------------------------------------- the lines before the loop
\* The program from its first line: the songs folder may hold no .mp3 file,
\* the camera may be missing and the speakers may be missing.  The variables
\* hold their startup values throughout; pc = "start" before they are assigned.
InitStartup ==
    /\ numTracks \in 0..MaxTracks
    /\ unreadable = {}
    /\ devices \in [camera : BOOLEAN, sink : BOOLEAN]
    /\ Startup
    /\ pc = "start"
    /\ probe = NoProbe

\* lines 29-190.  music_files[0] raises IndexError on an empty list (line 53),
\* load raises on an unreadable first track, AudioUtilities.GetSpeakers /
\* Activate raise without an audio endpoint (lines 59-66); cv2.VideoCapture(0)
\* returns an unopened capture without raising and nothing tests isOpened().
RunStartup ==
    /\ pc = "start"
    /\ pc' = IF numTracks = 0 \/ 0 \in unreadable \/ ~devices.sink
             THEN "crashed"
             ELSE "read"
    /\ UNCHANGED <<numTracks, unreadable, devices, current_song_index, last_wave_time,
                   last_gesture_time, current_message, message_start_time,
                   last_volume, volPer, current_time, loaded, mstate, devLevel,
                   hands, calls, accepted, lastCmd, scenario, released, probe>>

NextStartup == RunStartup \/ Next

SpecStartup == InitStartup /\ [][NextStartup]_vars

\* C12: when the track list is empty, the video source is unavailable or the
\* volume sink is unavailable, the program terminates at startup: it never
\* enters the frame loop, attempts no frame acquisition and dispatches no
\* playback or volume command.
C12_FatalAtStartup ==
    (numTracks = 0 \/ ~devices.camera \/ ~devices.sink) =>
       /\ pc \in {"start", "crashed"}
       /\ calls = <<>>
       /\ accepted = <<>>

\* C13: two consecutive accepted PlayPauseToggle commands with no track
\* command between them show alternating messages ("Paused" then "Playing" or
\* "Playing" then "Paused"), from every reachable playback state, the startup
\* state (a track loaded, never played) included.
C13_ToggleAlternates ==
    [][\A p \in PoseIds :
          (/\ StepHand(p)
           /\ Dispatched
           /\ NewCmd = "PlayPauseToggle"
           /\ lastCmd.cmd = "PlayPauseToggle")
          => current_message' # lastCmd.msg]_vars

\* C14: each class has its own last-fire timestamp: a WaveRight hand arriving
\* less than 1.0 s after an accepted WaveLeft, in a later frame and with no
\* PreviousTrack accepted within the last 1.0 s, is accepted as PreviousTrack.
C14_SeparateWaveTimestamps ==
    [][\A p \in PoseIds :
          (/\ StepHand(p)
           /\ Verdict(Poses[p]) = "PreviousTrack"
           /\ accepted = <<>>
           /\ lastCmd.cmd = "NextTrack"
           /\ current_time - lastCmd.at < cooldown_time
           /\ lastCmd.before = "PreviousTrack"
                 => current_time - lastCmd.beforeAt > cooldown_time)
          => Dispatched /\ NewCmd = "PreviousTrack"]_vars

\* C15: the classifiers are tried in the order WaveLeft, WaveRight, PlayPause
\* and the first match wins: a hand that satisfies a wave classifier and
\* PlayPauseGesture at once, with every class Armed by the program's
\* timestamps, produces the wave's track command and nothing else; the
\* play/pause timestamp stays as it was and neither pause nor unpause is called.
C15_FirstMatchWins ==
    [][\A p \in PoseIds :
          (/\ StepHand(p)
           /\ is_wave_left(Poses[p]) \/ is_wave_right(Poses[p])
           /\ is_play_pause_gesture(Poses[p])
           /\ ~Cooling("NextTrack") /\ ~Cooling("PlayPauseToggle"))
          => /\ Dispatched
             /\ NewCmd = IF is_wave_left(Poses[p]) THEN "NextTrack" ELSE "PreviousTrack"
             /\ NewPlaybackCalls = <<<<"load", current_song_index'>>, <<"play", 0>>>>
             /\ last_wave_time' = current_time
             /\ last_gesture_time' = last_gesture_time]_vars

\* one hand right of the wrist showing the OK sign, all classes Armed, three
\* tracks: PreviousTrack from index 0 to index 2, the play/pause time still 0
C15_Witness ==
    /\ numTracks = 3
    /\ hands = <<8>>
    /\ accepted = <<[hand |-> 1, cmd |-> "PreviousTrack"]>>
    /\ calls = <<Call(1, "load", 2), Call(1, "play", 0)>>
    /\ current_song_index = 2
    /\ mstate = "playing"
    /\ last_wave_time = current_time
    /\ last_gesture_time = 0
    /\ lastCmd.before = "none"

\* C16: a failed frame read ends the session with no retry, and so does the
\* quit key once its iteration's dispatch is complete: when the loop is left
\* it is left straight from the read or from the end of the frame with
\* nothing else changed, and from then on no frame is requested, no hand is
\* classified and no command or collaborator call is made.
C16_NoRetryAfterExit ==
    [][/\ (pc \in {"read", "hands"} /\ pc' = "cleanup")
             => UNCHANGED <<current_time, hands, calls, accepted, lastCmd,
                            current_song_index, last_wave_time, last_gesture_time,
                            last_volume, loaded, mstate, devLevel>>
       /\ pc \in {"cleanup", "done"}
             => /\ pc' \in {"cleanup", "done"}
                /\ UNCHANGED <<current_time, hands, calls, accepted, lastCmd,
                               current_song_index, last_wave_time, last_gesture_time,
                               last_volume, loaded, devLevel>>]_vars

\* the very first cap.read() failed: no frame was ever begun (the percentage
\* was never computed, the clock never read) and the program has cleaned up
C16_Witness ==
    /\ pc = "done"
    /\ volPer = 0
    /\ current_time = 0
    /\ hands = <<>> /\ calls = <<>>
    /\ lastCmd = NoCmd
    /\ released = {"camera", "windows", "mixer"}

\* C17: in every reachable state the remembered level lies within
\* [minVol, maxVol], every level passed to SetMasterVolumeLevel lies within
\* that range and the displayed percentage lies within 0..100, whatever the
\* thumb-index distance.
C17_VolumeInRange ==
    /\ last_volume \in minVol..maxVol
    /\ devLevel \in minVol..maxVol
    /\ volPer \in 0..100
    /\ \A k \in 1..Len(calls) :
          calls[k].op = "set_level" => calls[k].arg \in minVol..maxVol

\* one frame with a hand 16 px apart and then a hand 385 px apart: the level
\* was set to the minimum and then to the maximum
C17_Witness ==
    /\ hands = <<9, 5>>
    /\ calls = <<Call(1, "set_level", minVol), Call(2, "set_level", maxVol)>>
    /\ last_volume = maxVol
    /\ devLevel = maxVol
    /\ volPer = 100

C19_FrameConditions ==
    [][/\ (pc \in {"read", "hands"} /\ \A p \in PoseIds : ~StepHand(p))
             => /\ UNCHANGED <<current_song_index, last_wave_time, last_gesture_time,
                               loaded, last_volume, devLevel>>
                /\ Len(calls') <= Len(calls)
                /\ mstate' # mstate => (mstate = "playing" /\ mstate' = "stopped")
       /\ \A p \in PoseIds :
             StepHand(p)
             => /\ (last_volume' # last_volume \/ devLevel' # devLevel
                      \/ NewVolumeCalls # <<>>)
                   => is_volume_control_gesture(Poses[p])
                /\ current_song_index' # current_song_index
                   => Dispatched /\ NewCmd \in {"NextTrack", "PreviousTrack"}]_vars

\* a frame at 1.1 s dispatched NextTrack and set the level to the maximum; the
\* next frame, at 2.2 s, showed no hand and has ended with everything as it was
C19_Witness ==
    /\ pc = "read"
    /\ hands = <<>> /\ calls = <<>> /\ accepted = <<>>
    /\ current_time = 22
    /\ numTracks = 3
    /\ current_song_index = 1 /\ loaded = 1
    /\ mstate = "playing"
    /\ last_wave_time = 11 /\ last_gesture_time = 0
    /\ last_volume = maxVol /\ devLevel = maxVol
    /\ lastCmd.cmd = "NextTrack" /\ lastCmd.at = 11 /\ ~lastCmd.refused

\* C20: in every reachable state, for a list of N >= 1 tracks, the track
\* index lies within 0..N-1 and the track most recently loaded into the engine
\* is the track at the index; and every play call comes immediately after the
\* load of the track at the index, made for the same hand.
C20_IndexAndLoaded ==
    /\ current_song_index \in 0..(numTracks - 1)
    /\ loaded = current_song_index
    /\ \A k \in 1..Len(calls) :
          calls[k].op = "play"
          => /\ k > 1
             /\ calls[k - 1] = Call(calls[k].hand, "load", current_song_index)

\* PreviousTrack from index 0 on three tracks: track 2 loaded, then played
C20_Witness ==
    /\ numTracks = 3
    /\ hands = <<3>>
    /\ accepted = <<[hand |-> 1, cmd |-> "PreviousTrack"]>>
    /\ calls = <<Call(1, "load", 2), Call(1, "play", 0)>>
    /\ current_song_index = 2
    /\ loaded = 2
    /\ lastCmd.before = "none"
====
